---------------------------- MODULE Spec2Model ----------------------------
(***************************************************************************)
(* GeoGrafi: the two lookup clients (CEPValidator, Geocoder) and the CSV   *)
(* enrichment pipeline (CSVProcessor), as one state machine.               *)
(*                                                                         *)
(* Text is a sequence of one-character strings, so that digit filtering,   *)
(* strip(), len() and ", ".join() are computed as Python computes them.    *)
(* None is the empty tuple and a present value v is the 1-tuple <<v>>.     *)
(* Time is counted in whole seconds; each clock is kept as the time that   *)
(* has elapsed since an instant and saturates at the client's              *)
(* rate_limit_delay, the only value it is ever compared with.              *)
(* The program is single-threaded: a call runs to its return before the    *)
(* caller makes the next one.                                              *)
(***************************************************************************)
EXTENDS Integers, Sequences, FiniteSets, TLC

VARIABLES
    cep_validator,  \* CEPValidator: [cache, elapsed = time.time() - last_request_time]
    geocoder,       \* Geocoder:     [cache, elapsed = time.time() - last_request_time]
    transport,      \* what a mocked transport observes: time since the last request, gap of the last two
    vcall,          \* the frame of the current / last CEPValidator.search_cep call
    gcall,          \* the frame of the current / last Geocoder.search_by_* call
    processor,      \* CSVProcessor: [chunk_size, col_mapping, stats]
    run             \* the frame of the current / last CSVProcessor.process_file call

vars == <<cep_validator, geocoder, transport, vcall, gcall, processor, run>>

---------------------------------------------------------------------------
(* Bounds of the model and constants of the program *)

\* CEPValidator(rate_limit_delay): the constructor argument, in seconds
CEP_RATE_LIMIT_DELAY == 2
\* Geocoder(rate_limit_delay): the constructor argument, in seconds
GEO_RATE_LIMIT_DELAY == 2
CEP_RETRY_ATTEMPTS == 3
CEP_RETRY_DELAY == 1
GEO_RETRY_ATTEMPTS == 3
GEO_RETRY_DELAY == 3
\* len(cep_clean) of a well-formed postal code
CEP_LENGTH == 8
\* _search refuses a query whose stripped length is below this
MIN_QUERY_LENGTH == 3

---------------------------------------------------------------------------
(* Text *)

None == <<>>
Some(v) == <<v>>

Digits == {"0", "1", "2", "3", "4", "5", "6", "7", "8", "9"}
Whitespace == {" "}

\* ''.join(filter(str.isdigit, str(cep)))
OnlyDigits(s) == SelectSeq(s, LAMBDA c : c \in Digits)

RECURSIVE LStrip(_)
LStrip(s) == IF s # <<>> /\ Head(s) \in Whitespace THEN LStrip(Tail(s)) ELSE s

RECURSIVE RStrip(_)
RStrip(s) ==
    IF s # <<>> /\ s[Len(s)] \in Whitespace THEN RStrip(SubSeq(s, 1, Len(s) - 1)) ELSE s

\* str.strip()
Strip(s) == LStrip(RStrip(s))

\* sep.join(parts)
RECURSIVE Join(_, _)
Join(sep, parts) ==
    IF parts = <<>> THEN <<>>
    ELSE IF Len(parts) = 1 THEN parts[1]
    ELSE parts[1] \o sep \o Join(sep, Tail(parts))

COMMA_SPACE == <<",", " ">>

\* a clock advanced by t seconds, saturating at cap
Plus(x, t, cap) == IF x + t > cap THEN cap ELSE x + t

\* the record of the first answer the service gave for each key: kept by the observer
\* of the transport, never read by the program
FirstAnswer(answered, key, answer) ==
    IF key \in DOMAIN answered THEN answered
    ELSE [k \in DOMAIN answered \cup {key} |-> IF k = key THEN answer ELSE answered[k]]

GeoAnswered(answered, key, outcome, coords) ==
    IF outcome \in {"found", "empty"}
      THEN FirstAnswer(answered, key,
             [ret |-> IF outcome = "found" THEN <<coords>> ELSE <<>>])
      ELSE answered

\* dict[key] = value
Put(cache, key, value) ==
    [k \in DOMAIN cache \cup {key} |-> IF k = key THEN value ELSE cache[k]]

---------------------------------------------------------------------------
(* Inputs and service answers *)

CEP_PAULISTA_RAW == <<"0", "1", "3", "1", "0", "-", "1", "0", "0">>
CEP_PAULISTA     == <<"0", "1", "3", "1", "0", "1", "0", "0">>
CEP_RIO_RAW      == <<"2", "0", "0", "4", "0", ".", "0", "2", "0">>
CEP_SHORT        == <<"1", "2", "3">>

\* arguments the callers of search_cep pass
CepInputs == {<<>>, CEP_SHORT, CEP_PAULISTA_RAW, CEP_PAULISTA, CEP_RIO_RAW}

S_AV  == <<"A", "v">>
S_BV  == <<"B", "V">>
S_SP  == <<"S", "P">>
S_BR  == <<"B", "R">>
\* a street of two letters around a blank
S_GAP == <<"a", " ", "b">>

\* address entries the directory service may answer with (logradouro, bairro, localidade, uf)
DirEntries ==
    { [logradouro |-> S_AV, bairro |-> S_BV, localidade |-> S_SP, uf |-> S_SP],
      [logradouro |-> <<>>, bairro |-> <<>>, localidade |-> S_SP, uf |-> S_SP] }

\* (lat, lon) pairs the geocoding service may answer with
Coords == { <<-23, -46>>, <<-22, -43>> }

\* what one GET to the directory service can end in:
\*   "ok"        200, a JSON object without erro
\*   "erro"      200, a JSON object with erro = true
\*   "status"    a response whose status is not 200
\*   "neterr"    requests.exceptions.RequestException
\*   "malformed" 200 with a JSON body that is no object: data.get raises AttributeError
DirOutcomes == {"ok", "erro", "status", "neterr", "malformed"}

\* what one GET to the geocoding service can end in:
\*   "found"     200, a non-empty list whose first element carries lat and lon
\*   "empty"     200, an empty list
\*   "status"    a response whose status is not 200
\*   "connerr"   requests.exceptions.ConnectionError or Timeout
\*   "reqerr"    any other requests.exceptions.RequestException
\*   "malformed" 200 with a body that is no list of lat/lon objects: KeyError / ValueError
GeoOutcomes == {"found", "empty", "status", "connerr", "reqerr", "malformed"}

\* (street, number, neighborhood, city, state) tuples the callers of search_by_address pass
AddressInputs ==
    { <<S_AV, <<>>, S_BV, S_SP, S_SP>>,
      <<S_AV, <<>>, <<>>, <<>>, <<>>>>,
      <<<<>>, <<>>, <<>>, S_SP, S_SP>> }

\* a house number
N_7 == <<"7">>

\* (street, number, neighborhood, city, state) tuples that tell the ways of building and
\* of refusing a query apart: every component given, a street of two letters alone, no
\* street, a street with a blank inside
QueryInputs ==
    { <<S_AV, N_7, S_BV, S_SP, S_SP>>,
      <<S_AV, <<>>, <<>>, <<>>, <<>>>>,
      <<<<>>, <<>>, <<>>, S_SP, S_SP>>,
      <<S_GAP, <<>>, <<>>, <<>>, <<>>>> }

\* (cep, city, state) tuples the callers of search_by_cep pass
GeoCepInputs ==
    { <<CEP_PAULISTA_RAW, <<>>, S_BR>>,
      <<CEP_PAULISTA, <<>>, S_BR>> }

---------------------------------------------------------------------------
(* Frames of calls *)

Returned == {"idle", "done", "raised"}

IdleV == [pc |-> "idle", cep |-> <<>>, cep_clean |-> <<>>, attempt |-> 0,
          ret |-> None, how |-> "none", sent |-> 0, exc |-> ""]

IdleG == [pc |-> "idle", method |-> "none", cache_key |-> <<>>, query |-> <<>>,
          attempt |-> 0, ret |-> None, how |-> "none", sent |-> 0, exc |-> ""]

\* str(e) of the AttributeError of data.get on a JSON body that is a list
ATTRIBUTE_ERROR == "'list' object has no attribute 'get'"
\* str(e) of the KeyError of data[0] on a JSON body that is an object
KEY_ERROR == "0"

---------------------------------------------------------------------------
(* CEPValidator *)

\* validate_cep_format that accepts any text with a digit in it
validate_cep_format_any_digit(cep) == OnlyDigits(cep) # <<>>

\* validate_cep_format(cep)
validate_cep_format(cep) == Len(OnlyDigits(cep)) = CEP_LENGTH

\* _apply_rate_limit: the seconds it sleeps when `elapsed` have passed since last_request_time
RateLimitSleep(elapsed, delay) == IF elapsed < delay THEN delay - elapsed ELSE 0

\* SearchCepEnter without the check of the length of cep_clean
SearchCepEnterAnyLength(cep) ==
    LET cep_clean == OnlyDigits(cep)
        f == [IdleV EXCEPT !.cep = cep, !.cep_clean = cep_clean]
    IN  IF cep = <<>>
          THEN [f EXCEPT !.pc = "done", !.how = "invalid", !.cep_clean = <<>>]
        ELSE IF cep_clean \in DOMAIN cep_validator.cache
          THEN [f EXCEPT !.pc = "done", !.how = "hit",
                         !.ret = cep_validator.cache[cep_clean]]
        ELSE [f EXCEPT !.pc = "attempt"]

\* search_cep up to its loop: the frame after the format check and the cache lookup
SearchCepEnter(cep) ==
    LET cep_clean == OnlyDigits(cep)
        f == [IdleV EXCEPT !.cep = cep, !.cep_clean = cep_clean]
    IN  IF cep = <<>>
          THEN [f EXCEPT !.pc = "done", !.how = "invalid", !.cep_clean = <<>>]
        ELSE IF Len(cep_clean) # CEP_LENGTH
          THEN [f EXCEPT !.pc = "done", !.how = "invalid"]
        ELSE IF cep_clean \in DOMAIN cep_validator.cache
          THEN [f EXCEPT !.pc = "done", !.how = "hit",
                         !.ret = cep_validator.cache[cep_clean]]
        ELSE [f EXCEPT !.pc = "attempt"]

\* CepRetries with the last attempt followed by one more
CepRetriesOneMore(attempt) == attempt < CEP_RETRY_ATTEMPTS

\* whether attempt number `attempt` (from 0) of RETRY_ATTEMPTS is followed by another
CepRetries(attempt) == attempt < CEP_RETRY_ATTEMPTS - 1

\* CepCacheAfter with a failed attempt cached as an absence
CepCacheAfterFailureCached(cache, cep_clean, outcome, data) ==
    CASE outcome = "ok"   -> Put(cache, cep_clean, Some(data))
      [] outcome \in {"erro", "status", "neterr"} -> Put(cache, cep_clean, None)
      [] OTHER            -> cache

\* the cache after an attempt of the loop ended in `outcome` (data: the object of an "ok")
CepCacheAfter(cache, cep_clean, outcome, data) ==
    CASE outcome = "ok"   -> Put(cache, cep_clean, Some(data))
      [] outcome = "erro" -> Put(cache, cep_clean, None)
      [] OTHER            -> cache

\* the frame after an attempt of the loop ended in `outcome`
CepFrameAfter(f, outcome, data) ==
    LET g == [f EXCEPT !.sent = @ + 1]
    IN  CASE outcome = "ok"   -> [g EXCEPT !.pc = "done", !.how = "found", !.ret = Some(data)]
          [] outcome = "erro" -> [g EXCEPT !.pc = "done", !.how = "erro", !.ret = None]
          [] outcome \in {"status", "neterr"} ->
                IF CepRetries(f.attempt)
                  THEN [g EXCEPT !.attempt = @ + 1]
                  ELSE [g EXCEPT !.pc = "done", !.how = "exhausted", !.ret = None]
          [] OTHER -> [g EXCEPT !.pc = "raised", !.how = "raised", !.ret = None,
                                !.exc = ATTRIBUTE_ERROR]

\* the seconds the gate of one attempt sleeps before the request goes out
CepGateSleep == RateLimitSleep(cep_validator.elapsed, CEP_RATE_LIMIT_DELAY)

\* one pass of the loop of search_cep: the gate, the GET, and what follows its outcome
SearchCepAttempt(outcome, data) ==
    /\ vcall.pc = "attempt"
    /\ LET slept == CepGateSleep
           retry == IF outcome \in {"status", "neterr"} /\ CepRetries(vcall.attempt)
                      THEN CEP_RETRY_DELAY ELSE 0
       IN  /\ cep_validator' =
                 [cache |-> CepCacheAfter(cep_validator.cache, vcall.cep_clean, outcome, data),
                  elapsed |-> Plus(0, retry, CEP_RATE_LIMIT_DELAY)]
           /\ geocoder' = [geocoder EXCEPT
                 !.elapsed = Plus(@, slept + retry, GEO_RATE_LIMIT_DELAY)]
           /\ transport' = [transport EXCEPT
                 !.cep_gap = Plus(transport.cep_since, slept, CEP_RATE_LIMIT_DELAY),
                 !.cep_since = Plus(0, retry, CEP_RATE_LIMIT_DELAY),
                 !.geo_since = Plus(@, slept + retry, GEO_RATE_LIMIT_DELAY),
                 !.cep_answered =
                     IF outcome \in {"ok", "erro"}
                       THEN FirstAnswer(@, vcall.cep_clean,
                              [ret |-> IF outcome = "ok" THEN Some(data) ELSE None,
                               arg |-> vcall.cep])
                       ELSE @]
    /\ vcall' = CepFrameAfter(vcall, outcome, data)
    /\ UNCHANGED <<gcall, processor, run>>

---------------------------------------------------------------------------
(* Geocoder *)

ADDRESS_PREFIX == <<"a", "d", "d", "r", "e", "s", "s", ":">>
CEP_PREFIX == <<"c", "e", "p", ":">>
COLON == <<":">>

\* search_by_address: the parts list, street first and then each non-empty component
AddressParts(street, number, neighborhood, city, state) ==
    <<street>>
        \o (IF number # <<>> THEN <<number>> ELSE <<>>)
        \o (IF neighborhood # <<>> THEN <<neighborhood>> ELSE <<>>)
        \o (IF city # <<>> THEN <<city>> ELSE <<>>)
        \o (IF state # <<>> THEN <<state>> ELSE <<>>)

\* search_by_address: query = ", ".join(parts)
AddressQuery(street, number, neighborhood, city, state) ==
    Join(COMMA_SPACE, AddressParts(street, number, neighborhood, city, state))

\* search_by_address: cache_key = f"address:{query}"
AddressCacheKey(query) == ADDRESS_PREFIX \o query

\* search_by_cep: cache_key = f"cep:{cep_clean}:{city}:{state}"
CepCacheKey(cep, city, state) ==
    CEP_PREFIX \o OnlyDigits(cep) \o COLON \o city \o COLON \o state

\* search_by_cep: the query, with the city when one is given
CepQuery(cep, city, state) ==
    IF city # <<>>
      THEN Join(COMMA_SPACE, <<OnlyDigits(cep), city, state>>)
      ELSE Join(COMMA_SPACE, <<OnlyDigits(cep), state>>)

\* QueryTooShort that refuses the empty query only
QueryTooShortEmptyOnly(query) == query = <<>>

\* _search: the query it refuses before any request
QueryTooShort(query) == query = <<>> \/ Len(Strip(query)) < MIN_QUERY_LENGTH

\* GeoEnterFrame without the cache lookup
GeoEnterFrameNoLookup(method, cache_key, query) ==
    LET f == [IdleG EXCEPT !.method = method, !.cache_key = cache_key, !.query = query]
    IN  IF QueryTooShort(query)
          THEN [f EXCEPT !.pc = "done", !.how = "short", !.ret = None]
          ELSE [f EXCEPT !.pc = "attempt"]

\* search_by_address / search_by_cep up to the loop of _search: the frame after the
\* cache lookup and the length check of _search
GeoEnterFrame(method, cache_key, query) ==
    LET f == [IdleG EXCEPT !.method = method, !.cache_key = cache_key, !.query = query]
    IN  IF cache_key \in DOMAIN geocoder.cache
          THEN [f EXCEPT !.pc = "done", !.how = "hit", !.ret = geocoder.cache[cache_key]]
        ELSE IF QueryTooShort(query)
          THEN [f EXCEPT !.pc = "done", !.how = "short", !.ret = None]
        ELSE [f EXCEPT !.pc = "attempt"]

\* search_by_address / search_by_cep after _search returned: self.cache[cache_key] = result.
\* A cache hit returns before this line, and an exception leaves _search past it.
GeoCacheAfter(cache, f) ==
    IF f.pc = "done" /\ f.how # "hit" THEN Put(cache, f.cache_key, f.ret) ELSE cache

\* whether attempt number `attempt` (from 0) of RETRY_ATTEMPTS is followed by another
GeoRetries(attempt) == attempt < GEO_RETRY_ATTEMPTS - 1

\* the frame of _search after a GET ended in `outcome`; `session` tells the GET of
\* self.session from the direct requests.get of the except branch
GeoFrameAfter(f, outcome, coords, session) ==
    LET g == [f EXCEPT !.sent = @ + 1]
    IN  CASE outcome = "found" -> [g EXCEPT !.pc = "done", !.how = "found", !.ret = Some(coords)]
          [] outcome = "empty" -> [g EXCEPT !.pc = "done", !.how = "empty", !.ret = None]
          [] outcome = "connerr" /\ session -> [g EXCEPT !.pc = "fallback"]
          [] outcome \in {"status", "reqerr", "connerr"} ->
                IF GeoRetries(f.attempt)
                  THEN [g EXCEPT !.pc = "attempt", !.attempt = @ + 1]
                  ELSE [g EXCEPT !.pc = "done", !.how = "exhausted", !.ret = None]
          [] OTHER -> [g EXCEPT !.pc = "raised", !.how = "raised", !.ret = None,
                                !.exc = KEY_ERROR]

\* the seconds _search sleeps after a GET ended in `outcome`: time.sleep(RETRY_DELAY)
GeoRetrySleep(f, outcome, session) ==
    IF /\ outcome \in {"status", "reqerr", "connerr"}
       /\ ~(outcome = "connerr" /\ session)
       /\ GeoRetries(f.attempt)
      THEN GEO_RETRY_DELAY ELSE 0

\* the seconds the gate of one attempt sleeps before the request goes out
GeoGateSleep == RateLimitSleep(geocoder.elapsed, GEO_RATE_LIMIT_DELAY)

\* _search, one pass of the loop up to the answer of self.session.get: the gate, the GET,
\* and what follows its outcome
SearchSession(outcome, coords) ==
    /\ gcall.pc = "attempt"
    /\ LET slept == GeoGateSleep
           retry == GeoRetrySleep(gcall, outcome, TRUE)
           after == GeoFrameAfter(gcall, outcome, coords, TRUE)
       IN  /\ gcall' = after
           /\ geocoder' = [cache |-> GeoCacheAfter(geocoder.cache, after),
                           elapsed |-> Plus(0, retry, GEO_RATE_LIMIT_DELAY)]
           /\ cep_validator' = [cep_validator EXCEPT
                 !.elapsed = Plus(@, slept + retry, CEP_RATE_LIMIT_DELAY)]
           /\ transport' = [transport EXCEPT
                 !.geo_gap = Plus(transport.geo_since, slept, GEO_RATE_LIMIT_DELAY),
                 !.geo_since = Plus(0, retry, GEO_RATE_LIMIT_DELAY),
                 !.cep_since = Plus(@, slept + retry, CEP_RATE_LIMIT_DELAY),
                 !.geo_answered = GeoAnswered(@, gcall.cache_key, outcome, coords)]
    /\ UNCHANGED <<vcall, processor, run>>

\* _search, the except branch of the session's GET: requests.get sent directly, with no
\* gate before it, and what follows its outcome
SearchDirect(outcome, coords) ==
    /\ gcall.pc = "fallback"
    /\ LET retry == GeoRetrySleep(gcall, outcome, FALSE)
           after == GeoFrameAfter(gcall, outcome, coords, FALSE)
       IN  /\ gcall' = after
           /\ geocoder' = [cache |-> GeoCacheAfter(geocoder.cache, after),
                           elapsed |-> Plus(geocoder.elapsed, retry, GEO_RATE_LIMIT_DELAY)]
           /\ cep_validator' = [cep_validator EXCEPT
                 !.elapsed = Plus(@, retry, CEP_RATE_LIMIT_DELAY)]
           /\ transport' = [transport EXCEPT
                 !.geo_gap = transport.geo_since,
                 !.geo_since = Plus(0, retry, GEO_RATE_LIMIT_DELAY),
                 !.cep_since = Plus(@, retry, CEP_RATE_LIMIT_DELAY),
                 !.geo_answered = GeoAnswered(@, gcall.cache_key, outcome, coords)]
    /\ UNCHANGED <<vcall, processor, run>>

\* a second passes, during a request or between two statements
Tick ==
    /\ cep_validator' = [cep_validator EXCEPT !.elapsed = Plus(@, 1, CEP_RATE_LIMIT_DELAY)]
    /\ geocoder' = [geocoder EXCEPT !.elapsed = Plus(@, 1, GEO_RATE_LIMIT_DELAY)]
    /\ transport' = [transport EXCEPT
          !.cep_since = Plus(@, 1, CEP_RATE_LIMIT_DELAY),
          !.geo_since = Plus(@, 1, GEO_RATE_LIMIT_DELAY)]
    /\ UNCHANGED <<vcall, gcall, processor, run>>

---------------------------------------------------------------------------
(* Calls made on the clients directly *)

\* no call is in progress: the single thread is back in the caller
Quiet == vcall.pc \in Returned /\ gcall.pc \in Returned /\ run.pc \in Returned

\* CEPValidator.search_cep(cep), called on the instance
search_cep(cep) ==
    /\ Quiet
    /\ vcall' = SearchCepEnter(cep)
    /\ gcall' = IdleG
    /\ UNCHANGED <<cep_validator, geocoder, transport, processor, run>>

\* a call of the geocoder begins: the frame, and the cache line of a refused query
GeoEnter(method, cache_key, query) ==
    LET f == GeoEnterFrame(method, cache_key, query)
    IN  /\ gcall' = f
        /\ geocoder' = [geocoder EXCEPT !.cache = GeoCacheAfter(@, f)]

\* Geocoder.search_by_address(street, number, neighborhood, city, state), called on the instance
search_by_address(street, number, neighborhood, city, state) ==
    /\ Quiet
    /\ LET query == AddressQuery(street, number, neighborhood, city, state)
       IN  GeoEnter("search_by_address", AddressCacheKey(query), query)
    /\ vcall' = IdleV
    /\ UNCHANGED <<cep_validator, transport, processor, run>>

\* Geocoder.search_by_cep(cep, city, state), called on the instance
search_by_cep(cep, city, state) ==
    /\ Quiet
    /\ GeoEnter("search_by_cep", CepCacheKey(cep, city, state), CepQuery(cep, city, state))
    /\ vcall' = IdleV
    /\ UNCHANGED <<cep_validator, transport, processor, run>>

InitClients ==
    /\ cep_validator = [cache |-> <<>>, elapsed |-> CEP_RATE_LIMIT_DELAY]
    /\ geocoder = [cache |-> <<>>, elapsed |-> GEO_RATE_LIMIT_DELAY]
    /\ transport = [cep_since |-> CEP_RATE_LIMIT_DELAY, cep_gap |-> CEP_RATE_LIMIT_DELAY,
                    geo_since |-> GEO_RATE_LIMIT_DELAY, geo_gap |-> GEO_RATE_LIMIT_DELAY,
                    cep_answered |-> <<>>, geo_answered |-> <<>>]
    /\ vcall = IdleV
    /\ gcall = IdleG

\* the validator alone, called directly
InitCep == InitClients /\ processor = <<>> /\ run = [pc |-> "idle"]

NextCep ==
    \/ \E cep \in CepInputs : search_cep(cep)
    \/ \E outcome \in DirOutcomes, data \in DirEntries : SearchCepAttempt(outcome, data)
    \/ Tick

SpecCep == InitCep /\ [][NextCep]_vars

\* the validator alone, its loop running on: every GET returns or times out (TIMEOUT),
\* and the sleeps of the gate and of the retries are finite
SpecCepFair ==
    SpecCep /\ WF_vars(\E outcome \in DirOutcomes, data \in DirEntries :
                            SearchCepAttempt(outcome, data))

\* the geocoder alone, called directly
NextGeo ==
    \/ \E a \in AddressInputs : search_by_address(a[1], a[2], a[3], a[4], a[5])
    \/ \E c \in GeoCepInputs : search_by_cep(c[1], c[2], c[3])
    \/ \E outcome \in GeoOutcomes, coords \in Coords : SearchSession(outcome, coords)
    \/ \E outcome \in GeoOutcomes, coords \in Coords : SearchDirect(outcome, coords)
    \/ Tick

SpecGeo == InitCep /\ [][NextGeo]_vars

\* search_by_address alone, called directly on the addresses of QueryInputs
NextQuery ==
    \/ \E a \in QueryInputs : search_by_address(a[1], a[2], a[3], a[4], a[5])
    \/ \E outcome \in GeoOutcomes : SearchSession(outcome, <<-23, -46>>)
    \/ \E outcome \in GeoOutcomes : SearchDirect(outcome, <<-23, -46>>)
    \/ Tick

SpecQuery == InitCep /\ [][NextQuery]_vars

\* both clients, called directly in any order, each with inputs that share a key
\* after normalization and one that does not
NextClients ==
    \/ \E cep \in {CEP_PAULISTA_RAW, CEP_PAULISTA, CEP_RIO_RAW} : search_cep(cep)
    \/ \E outcome \in DirOutcomes, data \in DirEntries : SearchCepAttempt(outcome, data)
    \/ search_by_address(S_AV, <<>>, S_BV, S_SP, S_SP)
    \/ \E c \in GeoCepInputs : search_by_cep(c[1], c[2], c[3])
    \/ \E outcome \in GeoOutcomes, coords \in Coords : SearchSession(outcome, coords)
    \/ \E outcome \in GeoOutcomes, coords \in Coords : SearchDirect(outcome, coords)
    \/ Tick

SpecClients == InitCep /\ [][NextClients]_vars

---------------------------------------------------------------------------
(* CSVProcessor: cells, rows and files *)

\* the runs of process_file one instance is followed through
MaxRuns == 2

\* cells of a DataFrame: a string, NaN (an empty field of the file), None, a float
Text(s) == [t |-> "str", v |-> s]
NaN == [t |-> "nan"]
NoneCell == [t |-> "none"]
Float(x) == [t |-> "float", v |-> x]

\* pd.isna(cell)
IsNa(cell) == cell.t \in {"nan", "none"}

\* str(cell)
PyStr(cell) ==
    CASE cell.t = "str"  -> cell.v
      [] cell.t = "nan"  -> <<"n", "a", "n">>
      [] cell.t = "none" -> <<"N", "o", "n", "e">>

\* row.get(col, '')
Get(row, col) == IF col \in DOMAIN row THEN row[col] ELSE Text(<<>>)

\* str(row.get(col, '')).strip()
Field(row, col) == Strip(PyStr(Get(row, col)))

OutputColumns == {"CD_CEP_CORRETO", "DS_LATITUDE", "DS_LONGITUDE"}

AddressRow(cep_col, cep, street, neighborhood, city, state) ==
    [c \in {cep_col, "NM_LOGRADOURO", "NM_BAIRRO", "NM_MUNICIPIO", "NM_UF"} |->
        CASE c = cep_col         -> cep
          [] c = "NM_LOGRADOURO" -> street
          [] c = "NM_BAIRRO"     -> neighborhood
          [] c = "NM_MUNICIPIO"  -> city
          [] c = "NM_UF"         -> state]

\* a row with a punctuated, well-formed code and a full address
ROW_PAULISTA ==
    AddressRow("CD_CEP", Text(CEP_PAULISTA_RAW), Text(S_AV), Text(S_BV), Text(S_SP), Text(S_SP))
\* a second row with a punctuated, well-formed code and a full address
ROW_RIO ==
    AddressRow("CD_CEP", Text(CEP_RIO_RAW), Text(S_AV), Text(S_BV), Text(S_SP), Text(S_SP))
\* the first row under the header CEP in place of CD_CEP
ROW_ALT ==
    AddressRow("CEP", Text(CEP_PAULISTA_RAW), Text(S_AV), Text(S_BV), Text(S_SP), Text(S_SP))
\* a row of a file that has the code column only
ROW_BARE == [c \in {"CD_CEP"} |-> Text(CEP_RIO_RAW)]

\* a row whose code fails the format check, with a full address
ROW_SHORT ==
    AddressRow("CD_CEP", Text(CEP_SHORT), Text(S_AV), Text(S_BV), Text(S_SP), Text(S_SP))
\* a row with a well-formed code whose address fields are empty in the file: read_csv
\* reads an empty field as NaN
ROW_NOADDR == AddressRow("CD_CEP", Text(CEP_RIO_RAW), NaN, NaN, NaN, NaN)

\* a row of a file that has the columns DS_LATITUDE and DS_LONGITUDE
WithCoordinates(row, lat, lon) ==
    [c \in DOMAIN row \cup {"DS_LATITUDE", "DS_LONGITUDE"} |->
        CASE c = "DS_LATITUDE"  -> lat
          [] c = "DS_LONGITUDE" -> lon
          [] OTHER              -> row[c]]

\* rows that arrive with both coordinates: one with a well-formed code, one without
ROW_PLACED == WithCoordinates(ROW_PAULISTA, Float(-22), Float(-43))
ROW_PLACED_SHORT == WithCoordinates(ROW_SHORT, Float(-22), Float(-43))
\* a row that arrives with its latitude and an empty longitude
ROW_HALF == WithCoordinates(ROW_RIO, Float(-22), NaN)

\* the files read: lines counts the lines of text (the header, the rows, a blank last line)
Files ==
    { [lines |-> 3, rows |-> <<ROW_PAULISTA, ROW_RIO>>],
      [lines |-> 3, rows |-> <<ROW_BARE>>],
      [lines |-> 2, rows |-> <<ROW_ALT>>] }

\* a file whose rows take the branches of the decision chain one after the other
RowFiles == { [lines |-> 4, rows |-> <<ROW_PAULISTA, ROW_SHORT, ROW_NOADDR>>] }

\* a file that has the coordinate columns, filled in some rows
PlacedFiles == { [lines |-> 4, rows |-> <<ROW_PLACED, ROW_PLACED_SHORT, ROW_HALF>>] }

\* the constructor's chunk_size
ChunkSizes == {1, 2}

\* the values a caller gives col_mapping: items (canonical name, header of the file) in dict order
ColMappings == { <<>>, << <<"CD_CEP", "CEP">> >> }

\* str(e) of the AttributeError of reading an attribute __init__ never set
NO_COL_MAPPING == "'CSVProcessor' object has no attribute 'col_mapping'"

---------------------------------------------------------------------------
(* CSVProcessor: process_file and _process_chunk *)

\* chunk.rename(columns={old: new}) on one row
Rename(row, old, new) ==
    [c \in (DOMAIN row \ {old}) \cup {new} |-> IF c = new THEN row[old] ELSE row[c]]

\* _process_chunk: the loop over col_mapping.items()
RECURSIVE ApplyMapping(_, _)
ApplyMapping(rows, items) ==
    IF items = <<>> \/ rows = <<>> THEN rows
    ELSE LET new == items[1][1]
             old == items[1][2]
             cols == DOMAIN rows[1]
         IN  ApplyMapping(
                 IF old \in cols /\ new \notin cols
                   THEN [k \in DOMAIN rows |-> Rename(rows[k], old, new)]
                   ELSE rows,
                 Tail(items))

\* AddColumns that sets the three output columns to None whatever the file has
AddColumnsAnew(row) ==
    [c \in DOMAIN row \cup OutputColumns |-> IF c \in OutputColumns THEN NoneCell ELSE row[c]]

\* _process_chunk: the three output columns, added as None where the file has none
AddColumns(row) ==
    [c \in DOMAIN row \cup OutputColumns |-> IF c \in DOMAIN row THEN row[c] ELSE NoneCell]

\* _process_chunk before its loop over the rows
PrepareChunk(rows, items) ==
    LET renamed == ApplyMapping(rows, items)
    IN  [k \in DOMAIN renamed |-> AddColumns(renamed[k])]

\* chunk.at[idx, col] = cell
SetCell(chunk, i, col, cell) == [chunk EXCEPT ![i] = [@ EXCEPT ![col] = cell]]

\* chunk.at[idx, 'DS_LATITUDE'] = coords[0]; chunk.at[idx, 'DS_LONGITUDE'] = coords[1]
SetCoordinates(chunk, i, coords) ==
    SetCell(SetCell(chunk, i, "DS_LATITUDE", Float(coords[1])),
            i, "DS_LONGITUDE", Float(coords[2]))

\* pd.isna(DS_LATITUDE) or pd.isna(DS_LONGITUDE)
LacksCoordinates(row) == IsNa(row["DS_LATITUDE"]) \/ IsNa(row["DS_LONGITUDE"])

\* what a helper of _process_chunk gets from the geocoder: its try / except turns an
\* exception of the call into None
HelperResult == IF gcall.pc = "done" THEN gcall.ret ELSE None

\* the first n elements of a sequence, and the rest
Take(seq, n) == SubSeq(seq, 1, IF n < Len(seq) THEN n ELSE Len(seq))
Drop(seq, n) == SubSeq(seq, (IF n < Len(seq) THEN n ELSE Len(seq)) + 1, Len(seq))

IdleRunFrame ==
    [pc |-> "idle", n |-> 0, callback |-> FALSE, pending |-> <<>>, next_index |-> 0,
     chunk |-> <<>>, first |-> 0, i |-> 0, results |-> <<>>, progress |-> <<>>,
     chunks |-> <<>>, cep |-> <<>>, exc |-> "",
     started |-> 0, processed_before |-> 0, errors_before |-> 0]

\* the caller assigns processor.col_mapping, the attribute _process_chunk reads
SetColMapping(items) ==
    /\ Quiet
    /\ processor.col_mapping # Some(items)
    /\ processor' = [processor EXCEPT !.col_mapping = Some(items)]
    /\ UNCHANGED <<cep_validator, geocoder, transport, vcall, gcall, run>>

\* process_file(file_path, progress_callback=...) up to the first chunk:
\* _read_csv_chunks counts the lines of the file into total_rows
process_file(file, callback) ==
    /\ Quiet
    /\ run.n < MaxRuns
    /\ run' = [IdleRunFrame EXCEPT
          !.pc = "chunks", !.n = run.n + 1, !.callback = callback, !.pending = file.rows,
          !.processed_before = processor.stats.processed_rows,
          !.errors_before = Len(processor.stats.errors)]
    /\ processor' = [processor EXCEPT !.stats.total_rows = file.lines - 1]
    /\ vcall' = IdleV
    /\ gcall' = IdleG
    /\ UNCHANGED <<cep_validator, geocoder, transport>>

\* the next chunk of the file is read and _process_chunk runs up to its loop
NextChunk ==
    /\ run.pc = "chunks"
    /\ run.pending # <<>>
    /\ LET rows == Take(run.pending, processor.chunk_size)
       IN  IF processor.col_mapping = None
             THEN run' = [run EXCEPT !.pc = "raised", !.exc = NO_COL_MAPPING]
             ELSE run' = [run EXCEPT
                     !.pc = "row",
                     !.chunk = PrepareChunk(rows, processor.col_mapping[1]),
                     !.first = run.next_index,
                     !.i = 1,
                     !.pending = Drop(run.pending, processor.chunk_size),
                     !.next_index = @ + Len(rows)]
    /\ UNCHANGED <<cep_validator, geocoder, transport, vcall, gcall, processor>>

\* a call of the geocoder made by a helper for the row, or none when street or city is empty
HelperGeocode(street, neighborhood, city, state) ==
    LET query == AddressQuery(street, <<>>, neighborhood, city, state)
    IN  GeoEnter("search_by_address", AddressCacheKey(query), query)

\* _process_chunk, one row up to the directory lookup
RowStart ==
    /\ run.pc = "row"
    /\ run.i <= Len(run.chunk)
    /\ LET cep == Field(run.chunk[run.i], "CD_CEP")
       IN  IF cep # <<>> /\ validate_cep_format(cep)
             THEN /\ vcall' = SearchCepEnter(cep)
                  /\ run' = [run EXCEPT !.pc = "lookup", !.cep = cep, !.started = @ + 1]
             ELSE /\ UNCHANGED vcall
                  /\ run' = [run EXCEPT !.pc = "step2", !.cep = cep, !.started = @ + 1]
    /\ UNCHANGED <<cep_validator, geocoder, transport, gcall, processor>>

\* the row is left: the loop goes on with the next one
NextRow(r) == [r EXCEPT !.pc = "row", !.i = @ + 1, !.cep = <<>>]

\* ErrorRecord with the position of the row in its chunk in place of its index label
ErrorRecordChunkLocal(r, message) == [row |-> r.i - 1, error |-> message]

\* the except branch of the row: the record appended to stats['errors'], idx being the
\* row's label in the chunk's index, which read_csv numbers on from chunk to chunk
ErrorRecord(r, message) == [row |-> r.first + r.i - 1, error |-> message]

\* RowRaised with the try around the loop: the rest of the chunk is skipped
RowRaisedEndsChunk(r) == [r EXCEPT !.pc = "row", !.i = Len(r.chunk) + 1, !.cep = <<>>]

\* the except branch of the row: the loop over the rows of the chunk goes on
RowRaised(r) == NextRow(r)

\* _process_chunk, after search_cep returned or raised; the frame of a call is dropped
\* when the caller has taken its result
RowLookupDone ==
    /\ run.pc = "lookup"
    /\ vcall.pc \in {"done", "raised"}
    /\ LET row == run.chunk[run.i]
           street == Field(row, "NM_LOGRADOURO")
           city == Field(row, "NM_MUNICIPIO")
       IN  CASE vcall.pc = "raised" ->
                  /\ processor' = [processor EXCEPT !.stats.errors =
                        Append(@, ErrorRecord(run, vcall.exc))]
                  /\ run' = RowRaised(run)
                  /\ UNCHANGED <<gcall, geocoder>>
             [] vcall.pc = "done" /\ vcall.ret # None ->
                  LET cep_data == vcall.ret[1]
                      marked == SetCell(run.chunk, run.i, "CD_CEP_CORRETO", Text(run.cep))
                  IN  IF LacksCoordinates(row)
                        THEN /\ run' = [run EXCEPT !.chunk = marked, !.pc = "from_cep"]
                             /\ HelperGeocode(cep_data.logradouro, cep_data.bairro,
                                              cep_data.localidade, cep_data.uf)
                             /\ UNCHANGED processor
                        ELSE /\ run' = [run EXCEPT !.chunk = marked, !.pc = "step2"]
                             /\ UNCHANGED <<gcall, geocoder, processor>>
             [] OTHER ->
                  IF street = <<>> \/ city = <<>>
                    THEN /\ run' = [run EXCEPT !.pc = "step2"]
                         /\ UNCHANGED <<gcall, geocoder, processor>>
                    ELSE /\ run' = [run EXCEPT !.pc = "correction"]
                         /\ HelperGeocode(street, Field(row, "NM_BAIRRO"), city,
                                          Field(row, "NM_UF"))
                         /\ UNCHANGED processor
    /\ vcall' = IdleV
    /\ UNCHANGED <<cep_validator, transport>>

\* _process_chunk, after _get_coordinates_from_cep returned
RowFromCepDone ==
    /\ run.pc = "from_cep"
    /\ gcall.pc \in {"done", "raised"}
    /\ LET coords == HelperResult
       IN  IF coords # None
             THEN /\ run' = [run EXCEPT !.pc = "step2",
                                        !.chunk = SetCoordinates(@, run.i, coords[1])]
                  /\ processor' = [processor EXCEPT !.stats.found_coordinates = @ + 1]
             ELSE /\ run' = [run EXCEPT !.pc = "step2"]
                  /\ UNCHANGED processor
    /\ gcall' = IdleG
    /\ UNCHANGED <<cep_validator, geocoder, transport, vcall>>

\* RowCorrectionDone with the code of the row taken as corrected when the geocoder
\* found its address
RowCorrectionDoneDerives ==
    /\ run.pc = "correction"
    /\ gcall.pc \in {"done", "raised"}
    /\ IF HelperResult # None
         THEN /\ run' = [run EXCEPT !.pc = "step2",
                            !.chunk = SetCell(@, run.i, "CD_CEP_CORRETO", Text(run.cep))]
              /\ processor' = [processor EXCEPT !.stats.fixed_ceps = @ + 1]
         ELSE /\ run' = [run EXCEPT !.pc = "step2"]
              /\ UNCHANGED processor
    /\ gcall' = IdleG
    /\ UNCHANGED <<cep_validator, geocoder, transport, vcall>>

\* _process_chunk, after _search_cep_by_address returned: it returns None on every path,
\* so cep_corrigido is None and lines 167-177 never run
RowCorrectionDone ==
    /\ run.pc = "correction"
    /\ gcall.pc \in {"done", "raised"}
    /\ run' = [run EXCEPT !.pc = "step2"]
    /\ gcall' = IdleG
    /\ UNCHANGED <<cep_validator, geocoder, transport, vcall, processor>>

\* RowStep2 without the test of the coordinates the row has by now
RowStep2Always ==
    /\ run.pc = "step2"
    /\ LET row == run.chunk[run.i]
           street == Field(row, "NM_LOGRADOURO")
           city == Field(row, "NM_MUNICIPIO")
       IN  IF street = <<>> \/ city = <<>>
             THEN /\ run' = NextRow(run)
                  /\ UNCHANGED <<gcall, geocoder>>
             ELSE /\ run' = [run EXCEPT !.pc = "by_address"]
                  /\ HelperGeocode(street, Field(row, "NM_BAIRRO"), city, Field(row, "NM_UF"))
    /\ UNCHANGED <<cep_validator, transport, vcall, processor>>

\* _process_chunk, the row after the criteria on its code: geocoding by its own address
RowStep2 ==
    /\ run.pc = "step2"
    /\ LET row == run.chunk[run.i]
           street == Field(row, "NM_LOGRADOURO")
           city == Field(row, "NM_MUNICIPIO")
       IN  IF ~LacksCoordinates(row) \/ street = <<>> \/ city = <<>>
             THEN /\ run' = NextRow(run)
                  /\ UNCHANGED <<gcall, geocoder>>
             ELSE /\ run' = [run EXCEPT !.pc = "by_address"]
                  /\ HelperGeocode(street, Field(row, "NM_BAIRRO"), city, Field(row, "NM_UF"))
    /\ UNCHANGED <<cep_validator, transport, vcall, processor>>

\* _process_chunk, after _get_coordinates_by_address returned
RowByAddressDone ==
    /\ run.pc = "by_address"
    /\ gcall.pc \in {"done", "raised"}
    /\ LET coords == HelperResult
       IN  IF coords # None
             THEN /\ run' = NextRow([run EXCEPT !.chunk = SetCoordinates(@, run.i, coords[1])])
                  /\ processor' = [processor EXCEPT !.stats.found_coordinates = @ + 1]
             ELSE /\ run' = NextRow(run)
                  /\ UNCHANGED processor
    /\ gcall' = IdleG
    /\ UNCHANGED <<cep_validator, geocoder, transport, vcall>>

\* progress = (processed_rows / total_rows) * 100, kept as the fraction num / den
Progress(processed_rows, total_rows) == [num |-> processed_rows * 100, den |-> total_rows]

\* ChunkDone with the processed chunk put in front of the results
ChunkDoneInFront ==
    /\ run.pc = "row"
    /\ run.i > Len(run.chunk)
    /\ LET processed == processor.stats.processed_rows + Len(run.chunk)
       IN  /\ processor' = [processor EXCEPT !.stats.processed_rows = processed]
           /\ run' = [run EXCEPT
                 !.pc = "chunks",
                 !.results = run.chunk \o @,
                 !.chunks = Append(@, Len(run.chunk)),
                 !.chunk = <<>>,
                 !.i = 0,
                 !.progress = IF run.callback
                                THEN Append(@, Progress(processed, processor.stats.total_rows))
                                ELSE @]
    /\ UNCHANGED <<cep_validator, geocoder, transport, vcall, gcall>>

\* process_file, after _process_chunk returned the chunk
ChunkDone ==
    /\ run.pc = "row"
    /\ run.i > Len(run.chunk)
    /\ LET processed == processor.stats.processed_rows + Len(run.chunk)
       IN  /\ processor' = [processor EXCEPT !.stats.processed_rows = processed]
           /\ run' = [run EXCEPT
                 !.pc = "chunks",
                 !.results = @ \o run.chunk,
                 !.chunks = Append(@, Len(run.chunk)),
                 !.chunk = <<>>,
                 !.i = 0,
                 !.progress = IF run.callback
                                THEN Append(@, Progress(processed, processor.stats.total_rows))
                                ELSE @]
    /\ UNCHANGED <<cep_validator, geocoder, transport, vcall, gcall>>

\* process_file, after the last chunk: pd.concat(results) and the return
Finish ==
    /\ run.pc = "chunks"
    /\ run.pending = <<>>
    /\ run' = [run EXCEPT !.pc = "done"]
    /\ UNCHANGED <<cep_validator, geocoder, transport, vcall, gcall, processor>>

\* CSVProcessor(chunk_size=...), as its constructor leaves it: no col_mapping attribute
Init ==
    /\ InitClients
    /\ \E size \in ChunkSizes :
          processor = [chunk_size |-> size, col_mapping |-> None,
                       stats |-> [total_rows |-> 0, processed_rows |-> 0, fixed_ceps |-> 0,
                                  found_coordinates |-> 0, errors |-> <<>>]]
    /\ run = IdleRunFrame

\* the answers the services give during a run: the entry of the rows' street, and its place
PipeDir == {[logradouro |-> S_AV, bairro |-> S_BV, localidade |-> S_SP, uf |-> S_SP]}
PipeCoords == {<<-23, -46>>}

Next ==
    \/ \E items \in ColMappings : SetColMapping(items)
    \/ \E file \in Files, callback \in BOOLEAN : process_file(file, callback)
    \/ NextChunk
    \/ RowStart
    \/ RowLookupDone
    \/ RowFromCepDone
    \/ RowCorrectionDone
    \/ RowStep2
    \/ RowByAddressDone
    \/ ChunkDone
    \/ Finish
    \/ \E outcome \in DirOutcomes, data \in PipeDir : SearchCepAttempt(outcome, data)
    \/ \E outcome \in GeoOutcomes, coords \in PipeCoords : SearchSession(outcome, coords)
    \/ \E outcome \in GeoOutcomes, coords \in PipeCoords : SearchDirect(outcome, coords)

Spec == Init /\ [][Next]_vars

\* the pipeline run without a callback on the file of RowFiles, col_mapping set to {}
NextRows ==
    \/ SetColMapping(<<>>)
    \/ \E file \in RowFiles : process_file(file, FALSE)
    \/ NextChunk
    \/ RowStart
    \/ RowLookupDone
    \/ RowFromCepDone
    \/ RowCorrectionDone
    \/ RowStep2
    \/ RowByAddressDone
    \/ ChunkDone
    \/ Finish
    \/ \E outcome \in DirOutcomes, data \in PipeDir : SearchCepAttempt(outcome, data)
    \/ \E outcome \in GeoOutcomes, coords \in PipeCoords : SearchSession(outcome, coords)
    \/ \E outcome \in GeoOutcomes, coords \in PipeCoords : SearchDirect(outcome, coords)

SpecRows == Init /\ [][NextRows]_vars

\* the pipeline run without a callback on the file of PlacedFiles, col_mapping set to {}
NextPlaced ==
    \/ SetColMapping(<<>>)
    \/ \E file \in PlacedFiles : process_file(file, FALSE)
    \/ NextChunk
    \/ RowStart
    \/ RowLookupDone
    \/ RowFromCepDone
    \/ RowCorrectionDone
    \/ RowStep2
    \/ RowByAddressDone
    \/ ChunkDone
    \/ Finish
    \/ \E outcome \in DirOutcomes, data \in PipeDir : SearchCepAttempt(outcome, data)
    \/ \E outcome \in GeoOutcomes, coords \in PipeCoords : SearchSession(outcome, coords)
    \/ \E outcome \in GeoOutcomes, coords \in PipeCoords : SearchDirect(outcome, coords)

SpecPlaced == Init /\ [][NextPlaced]_vars

---------------------------------------------------------------------------
(* Claims about the clients *)

\* C1 (as stated): when a search_by_address / search_by_cep call ends because every
\* attempt of _search failed transiently, no entry for the call's cache key is stored,
\* so that a later call with the same key goes to the service again.
C1_ExhaustionNotCached ==
    (gcall.pc = "done" /\ gcall.how = "exhausted")
        => gcall.cache_key \notin DOMAIN geocoder.cache

\* C2 (as stated): on each client instance, any two consecutive requests handed to the
\* transport are at least rate_limit_delay apart, whichever path of _search sends them.
C2_RequestsSpaced ==
    /\ transport.cep_gap >= CEP_RATE_LIMIT_DELAY
    /\ transport.geo_gap >= GEO_RATE_LIMIT_DELAY

\* the inputs of search_cep that normalize to the code `key`
SameCode(key) == {cep \in CepInputs : OnlyDigits(cep) = key}

\* C7: on one CEPValidator, once the directory service has answered erro = true for a
\* code, the absence is cached and every later search_cep for that code returns absence
\* with no request; a call whose 3 attempts all failed transiently sent 3 requests, left
\* nothing cached for the code, and a later search_cep for that code goes to the loop of
\* requests again.
C7_AbsenceCachedExhaustionNot ==
    /\ \A k \in DOMAIN transport.cep_answered :
          transport.cep_answered[k].ret = None =>
              /\ k \in DOMAIN cep_validator.cache
              /\ cep_validator.cache[k] = None
              /\ \A cep \in SameCode(k) :
                    LET f == SearchCepEnter(cep)
                    IN  f.pc = "done" /\ f.ret = None /\ f.sent = 0
    /\ (vcall.pc = "done" /\ vcall.how = "erro") =>
          /\ vcall.cep_clean \in DOMAIN transport.cep_answered
          /\ cep_validator.cache[vcall.cep_clean] = None
    /\ (vcall.pc = "done" /\ vcall.how = "exhausted") =>
          /\ vcall.sent = CEP_RETRY_ATTEMPTS
          /\ vcall.ret = None
          /\ vcall.cep_clean \notin DOMAIN cep_validator.cache
          /\ \A cep \in SameCode(vcall.cep_clean) : SearchCepEnter(cep).pc = "attempt"
    /\ vcall.pc = "attempt" => vcall.cep_clean \notin DOMAIN cep_validator.cache

\* C7, its case: a code is cached as absent after an erro answer, and a call for another
\* code has just ended after 3 failed requests with nothing cached for it
C7_Witness ==
    /\ vcall.pc = "done" /\ vcall.how = "exhausted" /\ vcall.sent = CEP_RETRY_ATTEMPTS
    /\ vcall.cep_clean \notin DOMAIN cep_validator.cache
    /\ \E k \in DOMAIN transport.cep_answered :
          transport.cep_answered[k].ret = None /\ cep_validator.cache[k] = None

\* C8: on one CEPValidator or Geocoder, once the service has answered a lookup for a key
\* (found, or confirmed not found), no later call whose input normalizes to that key
\* sends a request, and each such call returns the first answer, whatever lookups for
\* other keys come in between.
C8_AnsweredKeyNeverAskedAgain ==
    /\ vcall.pc = "attempt" => vcall.cep_clean \notin DOMAIN transport.cep_answered
    /\ gcall.pc \in {"attempt", "fallback"} =>
          gcall.cache_key \notin DOMAIN transport.geo_answered
    /\ (vcall.pc = "done" /\ vcall.cep_clean \in DOMAIN transport.cep_answered) =>
          /\ vcall.ret = transport.cep_answered[vcall.cep_clean].ret
          /\ vcall.sent = 0 \/ vcall.how \in {"found", "erro"}
    /\ (gcall.pc = "done" /\ gcall.cache_key \in DOMAIN transport.geo_answered) =>
          /\ gcall.ret = transport.geo_answered[gcall.cache_key].ret
          /\ gcall.sent = 0 \/ gcall.how \in {"found", "empty"}
    /\ \A k \in DOMAIN transport.cep_answered :
          \A cep \in SameCode(k) :
              LET f == SearchCepEnter(cep)
              IN  f.pc = "done" /\ f.ret = transport.cep_answered[k].ret
    /\ \A k \in DOMAIN transport.geo_answered :
          LET f == GeoEnterFrame("search_by_cep", k, <<>>)
          IN  f.pc = "done" /\ f.how = "hit" /\ f.ret = transport.geo_answered[k].ret

\* C8, its case: a code first answered for one spelling is looked up under another
\* spelling and returned from the cache, while the geocoder holds an answered key
C8_Witness ==
    /\ vcall.pc = "done" /\ vcall.how = "hit" /\ vcall.sent = 0
    /\ vcall.cep_clean \in DOMAIN transport.cep_answered
    /\ transport.cep_answered[vcall.cep_clean].arg # vcall.cep
    /\ vcall.ret # None
    /\ DOMAIN transport.geo_answered # {}
    /\ DOMAIN transport.cep_answered # {vcall.cep_clean}

---------------------------------------------------------------------------
(* Claims about the pipeline *)

\* the step of _process_chunk that takes the answer of the directory lookup of a row
LookupTaken == run.pc = "lookup" /\ vcall.pc \in {"done", "raised"} /\ run' # run

\* the step of a helper of _process_chunk that takes the outcome of its geocoder call
GeocodeTaken ==
    run.pc \in {"from_cep", "correction", "by_address"}
        /\ gcall.pc \in {"done", "raised"} /\ run' # run

\* the errors stats['errors'] holds
Errors == processor.stats.errors

\* C3 (as stated): for every row whose raw CD_CEP passes format validation and whose
\* directory lookup resolves to an entry, _process_chunk sets CD_CEP_CORRETO to the
\* canonical code: exactly 8 digits, every separator removed.
C3_CorrectedCodeCanonical ==
    [][ (LookupTaken /\ vcall.pc = "done" /\ vcall.ret # None) =>
            /\ run'.chunk[run.i]["CD_CEP_CORRETO"] = Text(OnlyDigits(run.cep))
            /\ Len(run'.chunk[run.i]["CD_CEP_CORRETO"].v) = CEP_LENGTH ]_vars

\* the index label of the row being processed: rows are labelled from 0 in file order
CurrentIndex == run.started - 1

RunErrors == {k \in DOMAIN Errors : k > run.errors_before}

\* C6: when the processing of a row raises, the row is recorded in stats['errors'] under
\* its own index and the loop goes on with the next row of the same chunk; every row of
\* a chunk is started before the chunk is returned, and every returned chunk is counted
\* in processed_rows.
C6_RowIsolation ==
    /\ [](/\ run.pc \in {"chunks", "done"} =>
                /\ run.started = Len(run.results)
                /\ run.next_index = Len(run.results)
                /\ processor.stats.processed_rows = run.processed_before + Len(run.results)
          /\ run.pc = "done" => run.pending = <<>>
          /\ run.pc = "row" => run.started = Len(run.results) + run.i - 1
          /\ run.pc \notin Returned =>
                \A k \in RunErrors :
                    /\ Errors[k].row < run.started
                    /\ \A j \in RunErrors : j < k => Errors[j].row < Errors[k].row)
    /\ [][ (LookupTaken /\ vcall.pc = "raised") =>
              /\ Errors' = Append(Errors, [row |-> CurrentIndex, error |-> vcall.exc])
              /\ run'.pc = "row"
              /\ run'.i = run.i + 1
              /\ run'.chunk = run.chunk
              /\ run'.pending = run.pending
              /\ run'.results = run.results ]_vars

\* C6, its case: in a chunk of two rows the first raised and was recorded under index 0,
\* the second went through the chain and got its code resolved, and the run returned
\* both rows with the chunk counted
C6_Witness ==
    /\ run.pc = "done"
    /\ processor.chunk_size = 2
    /\ Len(run.results) = 2
    /\ \E k \in RunErrors : Errors[k].row = 0
    /\ run.results[1]["CD_CEP_CORRETO"] = NoneCell
    /\ run.results[2]["CD_CEP_CORRETO"] # NoneCell
    /\ processor.stats.processed_rows = run.processed_before + 2

RECURSIVE SumSeq(_)
SumSeq(seq) == IF seq = <<>> THEN 0 ELSE Head(seq) + SumSeq(Tail(seq))

\* C4 (as stated): at the end of every completed process_file run on one instance,
\* stats['processed_rows'] equals the sum of the lengths of the chunks processed in that
\* run and does not exceed stats['total_rows'].
C4_ProcessedRowsOfRun ==
    run.pc = "done" =>
        /\ processor.stats.processed_rows = SumSeq(run.chunks)
        /\ processor.stats.processed_rows <= processor.stats.total_rows

\* C9 (as stated): in every run with a progress callback, the callback is called once per
\* chunk, after the chunk is processed, each time with a value in [0, 100].
C9_ProgressInRange ==
    run.callback =>
        /\ run.pc \in {"chunks", "done"} => Len(run.progress) = Len(run.chunks)
        /\ \A k \in DOMAIN run.progress :
              /\ run.progress[k].den > 0
              /\ 0 <= run.progress[k].num
              /\ run.progress[k].num <= 100 * run.progress[k].den

\* C10 (as stated): on a CSVProcessor as its constructor builds it, with no mapping
\* supplied, _process_chunk renames nothing and goes on to enrich the rows, so that
\* process_file returns; with a mapping, a column is renamed to the canonical name only
\* if the canonical name is not a column of the chunk already.
C10_MappingOptional ==
    /\ [](processor.col_mapping = None => run.pc # "raised")
    /\ [][ (run.pc = "chunks" /\ run'.pc = "row") =>
              LET before == DOMAIN run.pending[1]
                  after == DOMAIN run'.chunk[1]
              IN  /\ processor.col_mapping = None => after = before \cup OutputColumns
                  /\ processor.col_mapping # None =>
                        \A j \in DOMAIN processor.col_mapping[1] :
                            LET new == processor.col_mapping[1][j][1]
                                old == processor.col_mapping[1][j][2]
                            IN  (old \in before /\ old \notin after) => new \notin before ]_vars

---------------------------------------------------------------------------
(* Claims about the decision chain of a row *)

\* the row _process_chunk is at
AtRow == run.pc \in {"row", "lookup", "from_cep", "correction", "step2", "by_address"}
             /\ run.i \in DOMAIN run.chunk

\* the code of the row does not have 8 digits
BadCode(row) == Len(OnlyDigits(Field(row, "CD_CEP"))) # CEP_LENGTH

FoundCoordinates == processor.stats.found_coordinates

\* C11: for a row whose CD_CEP fails the format check and whose street and city are not
\* empty, no directory lookup is made, CD_CEP_CORRETO stays null, step 2 geocodes the
\* row's address, and when the service finds it the coordinates are filled and
\* found_coordinates grows by exactly 1.
C11_BadCodeGeocodedByAddress ==
    [][ (/\ AtRow
         /\ BadCode(run.chunk[run.i])
         /\ Field(run.chunk[run.i], "NM_LOGRADOURO") # <<>>
         /\ Field(run.chunk[run.i], "NM_MUNICIPIO") # <<>>) =>
            LET row == run.chunk[run.i]
                filled == run.pc = "by_address" /\ gcall.pc = "done" /\ gcall.ret # None
                             /\ run' # run
            IN  /\ vcall.pc = "idle" /\ vcall' = vcall
                /\ cep_validator'.cache = cep_validator.cache
                /\ transport'.cep_answered = transport.cep_answered
                /\ run.pc \in {"row", "step2", "by_address"}
                /\ run.pc = "row" => run'.pc = "step2"
                /\ (run.pc = "step2" /\ LacksCoordinates(row)) => run'.pc = "by_address"
                /\ row["CD_CEP_CORRETO"] = NoneCell
                /\ run'.chunk[run.i]["CD_CEP_CORRETO"] = NoneCell
                /\ filled =>
                      /\ run'.chunk[run.i]["DS_LATITUDE"] = Float(gcall.ret[1][1])
                      /\ run'.chunk[run.i]["DS_LONGITUDE"] = Float(gcall.ret[1][2])
                      /\ FoundCoordinates' = FoundCoordinates + 1
                /\ ~filled => FoundCoordinates' = FoundCoordinates ]_vars

\* C11, its case: the row with the code "123" was returned with both coordinates and no
\* corrected code, and it is the one row counted in found_coordinates
C11_Witness ==
    /\ run.pc = "done"
    /\ FoundCoordinates = 1
    /\ \E k \in DOMAIN run.results :
          /\ run.results[k]["CD_CEP"] = Text(CEP_SHORT)
          /\ run.results[k]["CD_CEP_CORRETO"] = NoneCell
          /\ run.results[k]["DS_LATITUDE"] = Float(-23)
          /\ run.results[k]["DS_LONGITUDE"] = Float(-46)

\* the field of the row is empty in the file, blank, or its column is missing
EmptyOrMissing(row, col) ==
    \/ col \notin DOMAIN row
    \/ IsNa(row[col])
    \/ row[col].t = "str" /\ Strip(row[col].v) = <<>>

\* C12 (as stated): for a row whose street or city is empty or missing, no geocoding
\* request goes out for the row's own address, neither in the address-based correction
\* nor in step 2; when the directory reports the well-formed code not found, the
\* corrected code and both coordinates stay as they were, no error is recorded and the
\* row is left for the next one.
C12_NoGeocodingWithoutAddress ==
    [][ (/\ AtRow
         /\ \/ EmptyOrMissing(run.chunk[run.i], "NM_LOGRADOURO")
            \/ EmptyOrMissing(run.chunk[run.i], "NM_MUNICIPIO")) =>
            /\ run'.pc \in {"correction", "by_address"} =>
                  gcall'.pc \notin {"attempt", "fallback"} /\ gcall'.sent = 0
            /\ (run.pc = "lookup" /\ vcall.pc = "done" /\ vcall.ret = None /\ run' # run) =>
                  /\ run'.pc = "step2"
                  /\ run'.chunk = run.chunk
                  /\ processor' = processor
            /\ (run.pc = "step2" /\ run' # run) =>
                  /\ run'.pc = "row" /\ run'.i = run.i + 1
                  /\ run'.chunk = run.chunk
                  /\ processor' = processor ]_vars

\* the rows as the file gave them: the columns of the input, without the added ones
Origins(rows) ==
    [k \in DOMAIN rows |-> [c \in DOMAIN rows[k] \ OutputColumns |-> rows[k][c]]]

\* C13: process_file takes the chunks in file order and the rows of a chunk in order,
\* a row's calls being over before the next row starts; the rows returned, those of the
\* chunk at hand and those not read yet are at any time the rows of the file in their
\* order, so the returned dataset has every row once, in the order of the file.
C13_FileOrder ==
    /\ [](run.pc \notin {"idle", "raised"} =>
            \E file \in RowFiles :
                Origins(run.results \o run.chunk) \o run.pending = file.rows)
    /\ [](run.pc = "done" => run.pending = <<>> /\ run.chunk = <<>>)
    /\ [](AtRow => run.first = Len(run.results))
    /\ [](vcall.pc \notin Returned => run.pc = "lookup" /\ vcall.cep = run.cep)
    /\ [](gcall.pc \notin Returned => run.pc \in {"from_cep", "correction", "by_address"})
    /\ [][ (run'.n = run.n /\ run'.started # run.started) =>
              /\ run'.started = run.started + 1
              /\ vcall.pc \in Returned /\ gcall.pc \in Returned
              /\ run'.first + run'.i = run'.started
              /\ run'.chunk = run.chunk ]_vars

\* C13, its case: a file of three rows read in chunks of two was returned whole
C13_Witness ==
    /\ run.pc = "done"
    /\ processor.chunk_size = 2
    /\ run.chunks = <<2, 1>>
    /\ Len(run.results) = 3
    /\ run.results[1]["CD_CEP"] = Text(CEP_PAULISTA_RAW)
    /\ run.results[2]["CD_CEP"] = Text(CEP_SHORT)
    /\ run.results[3]["CD_CEP"] = Text(CEP_RIO_RAW)

---------------------------------------------------------------------------
(* Claims about the clients: keys, budgets and queries *)

\* a text of exactly 8 digits
EightDigits(code) == Len(code) = CEP_LENGTH /\ \A j \in DOMAIN code : code[j] \in Digits

\* C14: every key of the validator's cache is a text of exactly 8 digits, and so is the
\* code of every request sent to the directory service; a search_cep call whose input
\* does not normalize to 8 digits returns absence with no request, and leaves the cache
\* and last_request_time as they were.
C14_OnlyCanonicalCodes ==
    /\ [](\A key \in DOMAIN cep_validator.cache : EightDigits(key))
    /\ [](vcall.pc = "attempt" => EightDigits(vcall.cep_clean))
    /\ [](\A key \in DOMAIN transport.cep_answered : EightDigits(key))
    /\ [][ (/\ vcall' # vcall
            /\ vcall'.pc # "idle"
            /\ vcall'.cep # vcall.cep \/ vcall.pc \in Returned
            /\ vcall'.sent = 0
            /\ ~EightDigits(OnlyDigits(vcall'.cep))) =>
              /\ vcall'.pc = "done"
              /\ vcall'.ret = None
              /\ cep_validator' = cep_validator
              /\ transport' = transport ]_vars

\* C14, its case: right after a request that cached an entry, a call with "123" has
\* returned absence, the clock of the gate still at the instant of that request
C14_Witness ==
    /\ vcall.pc = "done"
    /\ vcall.cep = CEP_SHORT
    /\ vcall.ret = None
    /\ vcall.sent = 0
    /\ cep_validator.elapsed = 0
    /\ CEP_PAULISTA \in DOMAIN cep_validator.cache
    /\ transport.cep_since = 0

\* C15 (as stated): one _search call sends at most 3 requests to the geocoding service,
\* whatever connection errors, timeouts and non-200 answers it meets.
C15_AtMostThreeGeoRequests == gcall.sent <= GEO_RETRY_ATTEMPTS

\* C16: a search_cep call sends at most 3 requests to the directory service and then
\* returns; each request goes out behind the gate, rate_limit_delay or more after the
\* request before it; when every attempt fails transiently the call returns absence
\* and does not raise.
C16_BoundedLookup ==
    /\ [](vcall.sent <= CEP_RETRY_ATTEMPTS)
    /\ [](vcall.pc = "attempt" =>
            vcall.sent < CEP_RETRY_ATTEMPTS /\ vcall.attempt = vcall.sent)
    /\ [](vcall.how = "exhausted" =>
            vcall.pc = "done" /\ vcall.ret = None /\ vcall.sent = CEP_RETRY_ATTEMPTS)
    /\ [](transport.cep_gap >= CEP_RATE_LIMIT_DELAY)
    /\ [][ vcall'.sent > vcall.sent =>
              /\ vcall'.sent = vcall.sent + 1
              /\ transport'.cep_gap = CEP_RATE_LIMIT_DELAY
              /\ transport'.cep_since <= CEP_RETRY_DELAY ]_vars
    /\ (vcall.pc = "attempt" ~> vcall.pc \in Returned)

\* C16, its case: three requests were sent, each failed transiently, and the call has
\* returned absence with nothing cached
C16_Witness ==
    /\ vcall.pc = "done"
    /\ vcall.how = "exhausted"
    /\ vcall.sent = CEP_RETRY_ATTEMPTS
    /\ vcall.ret = None
    /\ vcall.cep_clean \notin DOMAIN cep_validator.cache

\* the components of an address that are not empty, in their order
NonEmptyParts(a) == SelectSeq(a, LAMBDA part : part # <<>>)

\* C17 (as stated): for every combination of empty and non-empty street, number,
\* neighborhood, city and state, the query of search_by_address is the non-empty
\* components in that order joined by ", "; an empty component, the street included,
\* gives neither text nor separator.
C17_QueryOfNonEmptyParts ==
    [][ \A a \in QueryInputs :
            search_by_address(a[1], a[2], a[3], a[4], a[5]) =>
                gcall'.query = Join(COMMA_SPACE, NonEmptyParts(a)) ]_vars

\* the characters of a text that are not whitespace
NonWhitespace(s) == SelectSeq(s, LAMBDA c : c \notin Whitespace)

\* a call of search_by_address has just been entered
AddressCallEntered ==
    /\ gcall.pc \in Returned
    /\ gcall' # gcall
    /\ gcall'.method = "search_by_address"

\* C18 (as stated): when the joined query of search_by_address has fewer than 3
\* non-whitespace characters the call returns absence at once, with no request and the
\* gate untouched.
C18_FewNonWhitespaceRefused ==
    [][ (AddressCallEntered /\ Len(NonWhitespace(gcall'.query)) < MIN_QUERY_LENGTH) =>
            /\ gcall'.pc = "done" /\ gcall'.ret = None /\ gcall'.sent = 0
            /\ geocoder'.elapsed = geocoder.elapsed
            /\ transport' = transport ]_vars

\* C18 (amended): when the joined query of search_by_address, stripped of leading and
\* trailing whitespace, has fewer than 3 characters (inner blanks and separators
\* counted), the call returns absence at once, with no request and the gate untouched.
C18_ShortStrippedRefused ==
    [][ (AddressCallEntered /\ Len(Strip(gcall'.query)) < MIN_QUERY_LENGTH) =>
            /\ gcall'.pc = "done" /\ gcall'.ret = None /\ gcall'.sent = 0
            /\ geocoder'.elapsed = geocoder.elapsed
            /\ transport' = transport ]_vars

\* C18, its case: right after a request, a call for the street "Av" alone has returned
\* absence with nothing sent, the clock of the gate still at the instant of that request
C18_Witness ==
    /\ gcall.pc = "done"
    /\ gcall.method = "search_by_address"
    /\ gcall.query = S_AV
    /\ gcall.how = "short"
    /\ gcall.ret = None
    /\ gcall.sent = 0
    /\ geocoder.elapsed = 0
    /\ transport.geo_since = 0

---------------------------------------------------------------------------
(* Claims about the counters of the pipeline *)

\* C19: the address-based correction changes no output: for a row whose well-formed
\* code does not resolve (reported absent, or the retries exhausted), whatever the
\* geocoder returns, that branch leaves CD_CEP_CORRETO as it was, and
\* stats['fixed_ceps'] is 0 after any run.
C19_CorrectionChangesNothing ==
    /\ [](processor.stats.fixed_ceps = 0)
    /\ [][ (run.pc = "lookup" /\ vcall.pc = "done" /\ vcall.ret = None /\ run' # run) =>
              /\ run'.pc \in {"correction", "step2"}
              /\ run'.chunk = run.chunk
              /\ processor' = processor ]_vars
    /\ [][ run.pc = "correction" =>
              /\ run'.chunk = run.chunk
              /\ processor' = processor
              /\ run' # run => run'.pc = "step2" ]_vars

\* C19, its case: the code of the first row of the first run was reported absent, the
\* geocoder found the row's address for the correction, and the row is at step 2 with
\* no corrected code
C19_Witness ==
    /\ run.pc = "step2"
    /\ run.n = 1 /\ run.started = 1
    /\ run.chunk[1]["CD_CEP"] = Text(CEP_PAULISTA_RAW)
    /\ CEP_PAULISTA \in DOMAIN cep_validator.cache
    /\ cep_validator.cache[CEP_PAULISTA] = None
    /\ \E key \in DOMAIN geocoder.cache : geocoder.cache[key] # None
    /\ run.chunk[1]["CD_CEP_CORRETO"] = NoneCell
    /\ processor.stats.fixed_ceps = 0

\* the rows of the chunk at hand that _process_chunk has begun
RowsBegun ==
    CASE run.pc = "row" -> run.i - 1
      [] run.pc \in {"lookup", "from_cep", "correction", "step2", "by_address"} -> run.i
      [] OTHER -> 0

\* C20: step 2 geocodes the row's address only if the row still lacks a coordinate after
\* step 1; found_coordinates grows by one at a time, only when the pipeline fills the
\* coordinates of a row that lacked them, so at most once per row, and after any run it
\* does not exceed processed_rows.
C20_FoundAtMostOncePerRow ==
    /\ [](run.pc = "done" => FoundCoordinates <= processor.stats.processed_rows)
    /\ [](FoundCoordinates <= processor.stats.processed_rows + RowsBegun)
    /\ [][ (run.pc = "step2" /\ run'.pc = "by_address") =>
              LacksCoordinates(run.chunk[run.i]) ]_vars
    /\ [][ FoundCoordinates' # FoundCoordinates =>
              /\ FoundCoordinates' = FoundCoordinates + 1
              /\ AtRow
              /\ LacksCoordinates(run.chunk[run.i])
              /\ ~LacksCoordinates(run'.chunk[run.i]) ]_vars

\* C20, its case: the first row got its code confirmed and its coordinates filled, the
\* second got them in step 2, each was counted once, and the run returned with the third
\* row left without coordinates
C20_Witness ==
    /\ run.pc = "done"
    /\ run.n = 1
    /\ Len(run.results) = 3
    /\ run.results[1]["CD_CEP_CORRETO"] = Text(CEP_PAULISTA_RAW)
    /\ ~LacksCoordinates(run.results[1])
    /\ ~LacksCoordinates(run.results[2])
    /\ LacksCoordinates(run.results[3])
    /\ FoundCoordinates = 2
    /\ processor.stats.processed_rows = 3

\* the rows _process_chunk has taken from the file so far: those returned and those of
\* the chunk at hand
Taken == run.results \o run.chunk

\* the row arrived with both coordinates
Placed(row) ==
    /\ {"DS_LATITUDE", "DS_LONGITUDE"} \subseteq DOMAIN row
    /\ ~IsNa(row["DS_LATITUDE"])
    /\ ~IsNa(row["DS_LONGITUDE"])

\* C21: a row that arrives with both DS_LATITUDE and DS_LONGITUDE non-null leaves
\* _process_chunk with the two values it came with, and found_coordinates is not
\* incremented for it, whichever branch of the chain on its code the row takes.
C21_PlacedRowsKept ==
    /\ [](run.pc \notin {"idle", "raised"} =>
            \E file \in PlacedFiles :
                \A k \in DOMAIN Taken :
                    Placed(file.rows[k]) =>
                        /\ Taken[k]["DS_LATITUDE"] = file.rows[k]["DS_LATITUDE"]
                        /\ Taken[k]["DS_LONGITUDE"] = file.rows[k]["DS_LONGITUDE"])
    /\ [][ (AtRow /\ \E file \in PlacedFiles : Placed(file.rows[run.first + run.i])) =>
              /\ FoundCoordinates' = FoundCoordinates
              /\ run'.pc \notin {"from_cep", "by_address"} ]_vars

\* C21, its case: the run returned the two rows that came with coordinates as they came,
\* the first after its code was confirmed and the second with no lookup, and counted
\* only the third row, whose longitude it filled
C21_Witness ==
    /\ run.pc = "done"
    /\ run.n = 1
    /\ Len(run.results) = 3
    /\ run.results[1]["CD_CEP_CORRETO"] = Text(CEP_PAULISTA_RAW)
    /\ run.results[1]["DS_LATITUDE"] = Float(-22)
    /\ run.results[1]["DS_LONGITUDE"] = Float(-43)
    /\ run.results[2]["CD_CEP_CORRETO"] = NoneCell
    /\ run.results[2]["DS_LATITUDE"] = Float(-22)
    /\ run.results[2]["DS_LONGITUDE"] = Float(-43)
    /\ run.results[3]["DS_LONGITUDE"] = Float(-46)
    /\ FoundCoordinates = 1

=============================================================================
